---- MODULE Spec2Model ----
(***************************************************************************)
(* Subdomain Finder: the PHP discovery service (SubdomainService and       *)
(* RedisService), the React DomainSearch client, and the job tracker the   *)
(* client polls.                                                           *)
(***************************************************************************)
EXTENDS Integers, Sequences, FiniteSets, TLC

VARIABLES
    reqs,      \* the discovery requests the PHP service is handling
    procs,     \* the provider processes each request started with exec()
    files,     \* the temp files under TEMP_DIR, by path
    redis,     \* the Redis store: cache key -> the JSON text stored, if any
    expiry,    \* for each key: seconds since setex, and the expiration it gave
    redisUp,   \* whether the Redis server answers
    lastId,    \* the last value uniqid() returned (microsecond clock)
    ui,        \* the state of the DomainSearch page (its useState slots)
    net,       \* the responses on their way to the page
    jobs,      \* the job tracker: target -> Job
    res        \* the stored DiscoveryResult of each target

svcVars == <<reqs, procs, files, redis, expiry, redisUp, lastId>>

cliVars == <<ui, net, jobs, res>>

vars == <<svcVars, cliVars>>

(***************************************************************************)
(* Bounds                                                                  *)
(***************************************************************************)
MaxReq == 2      \* requests the service handles at the same time

ReqIds == 1..MaxReq
Names == {"e"}
\* the target of "?domain=": the parameter is set and holds the empty string
NoName == ""
AllNames == Names \cup {NoName}
Kinds == {"domain", "org"}
Providers == {"subfinder", "crtsh", "crtshorg"}
Prefixes == {"subfinder", "crtsh", "domain", "org"}
TempIds == 1..MaxReq

(***************************************************************************)
(* Strings are sequences of characters; the characters that matter to the  *)
(* service are the wildcard marker, the dot, the at sign, blanks and       *)
(* letters of both cases.                                                  *)
(***************************************************************************)
Ord(c) ==
    CASE c = " " -> 32
      [] c = "*" -> 42
      [] c = "." -> 46
      [] c = "0" -> 48
      [] c = "@" -> 64
      [] c = "A" -> 65
      [] c = "a" -> 97
      [] c = "e" -> 101
      [] c = "m" -> 109
      [] c = "w" -> 119

\* strcmp: byte-wise lexicographic order, as PHP's sort() orders strings
RECURSIVE StrLess(_, _)
StrLess(s, t) ==
    IF t = <<>> THEN FALSE
    ELSE IF s = <<>> THEN TRUE
    ELSE IF Ord(Head(s)) # Ord(Head(t)) THEN Ord(Head(s)) < Ord(Head(t))
    ELSE StrLess(Tail(s), Tail(t))

\* PHP trim(): blanks removed at both ends
RECURSIVE LTrim(_)
LTrim(s) == IF s # <<>> /\ Head(s) = " " THEN LTrim(Tail(s)) ELSE s

RECURSIVE RTrim(_)
RTrim(s) ==
    IF s # <<>> /\ s[Len(s)] = " " THEN RTrim(SubSeq(s, 1, Len(s) - 1)) ELSE s

Trim(s) == RTrim(LTrim(s))

\* PHP truthiness of a string, as array_filter() without a callback tests it
Truthy(s) == s # <<>> /\ s # <<"0">>

\* sed 's/\*\.//g': every "*." removed
RECURSIVE SedStripWildcard(_)
SedStripWildcard(s) ==
    IF s = <<>> THEN <<>>
    ELSE IF Len(s) >= 2 /\ s[1] = "*" /\ s[2] = "."
         THEN SedStripWildcard(SubSeq(s, 3, Len(s)))
    ELSE <<Head(s)>> \o SedStripWildcard(Tail(s))

\* grep '@': the line holds an at sign
HasAt(s) == \E i \in 1..Len(s) : s[i] = "@"

Range(q) == {q[i] : i \in 1..Len(q)}

StrMin(S) == CHOOSE x \in S : \A y \in S : y = x \/ StrLess(x, y)

\* sort | uniq, and array_unique() followed by sort(): the set in ascending order
RECURSIVE SortSet(_)
SortSet(S) ==
    IF S = {} THEN <<>> ELSE <<StrMin(S)>> \o SortSet(S \ {StrMin(S)})

\* array_filter(array_map('trim', file($path)))
ReadLines(lines) == SelectSeq([i \in 1..Len(lines) |-> Trim(lines[i])], Truthy)

(***************************************************************************)
(* What the sources can answer for the target.                             *)
(***************************************************************************)
hWww   == <<"w", ".", "e">>
hApi   == <<"a", ".", "e">>
hApiUp == <<"A", ".", "e">>
hWild  == <<"*", ".", "e">>
hMail  == <<"m", "@", "e">>

\* the lines subfinder writes with -o
SubfinderOutputs == { <<hWww, hApi>>, <<hApi>> }

\* the common_name / name_value strings of crt.sh's JSON answer
CrtshNames == { {hApiUp, hMail}, {hWild, hWww} }

\* runCrtsh's pipeline after jq: sed, grep -v '@', sort | uniq
CrtshPipeline(names) ==
    SortSet({SedStripWildcard(n) : n \in {m \in names : ~HasAt(SedStripWildcard(m))}})

(***************************************************************************)
(* Files and cache entries                                                 *)
(***************************************************************************)
Paths == Prefixes \X AllNames \X TempIds

NoFile == [exists |-> FALSE, done |-> FALSE, lines |-> <<>>]

\* one prefix for both kinds of request
CacheKeyShared(kind, name) == "domain:" \o name

\* "domain:{$domain}" and "org:{$orgName}"
CacheKey(kind, name) == (IF kind = "domain" THEN "domain:" ELSE "org:") \o name

CacheKeys == {CacheKey(kind, name) : kind \in Kinds, name \in AllNames}

\* the requests whose cache key is key
KeyTargets(key) == {t \in Kinds \X AllNames : CacheKey(t[1], t[2]) = key}

\* config.php: define('CACHE_EXPIRATION', 3600), in seconds
CACHE_EXPIRATION == 3600

\* the seconds that pass in one step of the clock
TimeStep == 1800

NoExpiry == [age |-> 0, ttl |-> 0]

\* json_encode($value) of a $result array: a JSON object with its four members
json_encode(result) ==
    IF result.kind = "domain"
    THEN [domain |-> result.name, subdomains |-> result.hosts,
          httpx_results |-> result.httpx,
          total_subdomains |-> result.total]
    ELSE [organization |-> result.name, domains |-> result.hosts,
          httpx_results |-> result.httpx,
          total_domains |-> result.total]

\* json_decode($value, true): the JSON object as an associative array
json_decode(text) ==
    IF "domain" \in DOMAIN text
    THEN [kind |-> "domain", name |-> text.domain, hosts |-> text.subdomains,
          httpx |-> text.httpx_results, total |-> text.total_subdomains]
    ELSE [kind |-> "org", name |-> text.organization, hosts |-> text.domains,
          httpx |-> text.httpx_results, total |-> text.total_domains]

\* the Redis store as a pair
Stored(store, exp) == [store |-> store, expiry |-> exp]

\* the entry outlives the expiration it was given
setexTwiceAsLong(key, expiration, text) ==
    Stored([redis EXCEPT ![key] = <<text>>],
           [expiry EXCEPT ![key] = [age |-> 0, ttl |-> 2 * expiration]])

\* Redis SETEX key seconds value
setex(key, expiration, text) ==
    Stored([redis EXCEPT ![key] = <<text>>],
           [expiry EXCEPT ![key] = [age |-> 0, ttl |-> expiration]])

\* the stored text is handed back as it is, not decoded
RedisGetRaw(conn, key) == IF conn /\ redisUp THEN redis[key] ELSE <<>>

\* RedisService::get: null without a connection, when the server fails, and
\* when the key holds nothing; else the decoded value
RedisGet(conn, key) ==
    IF conn /\ redisUp /\ redis[key] # <<>>
    THEN <<json_decode(redis[key][1])>>
    ELSE <<>>

\* the value is stored whether or not the server was reached
RedisSetUnguarded(conn, key, value, expiration) ==
    setex(key, expiration, json_encode(value))

\* RedisService::set: setex when connected, else nothing is stored
RedisSet(conn, key, value, expiration) ==
    IF conn /\ redisUp
    THEN setex(key, expiration, json_encode(value))
    ELSE Stored(redis, expiry)

\* the value RedisService::set returns
RedisSetReturns(conn) == conn /\ redisUp

\* RedisService::delete: del when connected, else nothing is removed
RedisDelete(conn, key) ==
    IF conn /\ redisUp
    THEN Stored([redis EXCEPT ![key] = <<>>], [expiry EXCEPT ![key] = NoExpiry])
    ELSE Stored(redis, expiry)

\* the value RedisService::delete returns: del(...) > 0
RedisDeleteReturns(conn, key) == conn /\ redisUp /\ redis[key] # <<>>

\* RedisService::isAvailable: the server answers the ping
isAvailable(conn) == conn /\ redisUp

\* the cached data is fetched and then not returned
UseCachedNever(useCache, cachedData) == FALSE

\* if ($useCache) { $cachedData = get($cacheKey); if ($cachedData) return ... }
UseCached(useCache, cachedData) == useCache /\ cachedData # <<>>


\* array_unique(): the first occurrence of each value, in the order met
RECURSIVE array_unique(_)
array_unique(q) ==
    IF q = <<>> THEN <<>>
    ELSE LET rest == array_unique(SubSeq(q, 1, Len(q) - 1))
         IN IF q[Len(q)] \in Range(rest) THEN rest ELSE Append(rest, q[Len(q)])

\* the merged lines are deduplicated and left in the order they were read
combineUnsorted(subfinderFile, crtshFile) ==
    LET subfinderDomains ==
            IF subfinderFile.exists THEN ReadLines(subfinderFile.lines) ELSE <<>>
        crtshDomains ==
            IF crtshFile.exists THEN ReadLines(crtshFile.lines) ELSE <<>>
    IN array_unique(subfinderDomains \o crtshDomains)

\* SubdomainService::combineResults: both files if they exist, deduplicated, sorted
combineResults(subfinderFile, crtshFile) ==
    LET subfinderDomains ==
            IF subfinderFile.exists THEN ReadLines(subfinderFile.lines) ELSE <<>>
        crtshDomains ==
            IF crtshFile.exists THEN ReadLines(crtshFile.lines) ELSE <<>>
    IN SortSet(Range(subfinderDomains \o crtshDomains))

\* SubdomainService::runCrtshOrg, after exec: the file's lines if it exists
readOrgOutput(orgFile) == IF orgFile.exists THEN ReadLines(orgFile.lines) ELSE <<>>

\* a line httpx -json prints for a host it reached: one JSON object; the model
\* keeps the host the object names, between its braces
RecordLine(host) == <<"{">> \o host \o <<"}">>

\* the same line cut short before its closing brace
PartialLine(host) == <<"{">> \o host

\* json_decode($line, true) of one line: the object's content if the text,
\* surrounding whitespace aside, is an object; else null
json_decode_line(line) ==
    LET text == Trim(line)
    IN IF Len(text) >= 2 /\ Head(text) = "{" /\ text[Len(text)] = "}"
       THEN <<SubSeq(text, 2, Len(text) - 1)>>
       ELSE <<>>

\* if ($result): null and the empty array are false
ResultIsTrue(decoded) == decoded # <<>> /\ decoded[1] # <<>>

\* the parse gives up at the first line that is not a record
ParseUntilBad(output) ==
    LET decoded == [i \in 1..Len(output) |->
                       IF Truthy(Trim(output[i])) THEN json_decode_line(output[i])
                       ELSE <<>>]
        bad == {i \in 1..Len(output) : ~ResultIsTrue(decoded[i])}
        last == IF bad = {} THEN Len(output)
                ELSE (CHOOSE i \in bad : \A j \in bad : i <= j) - 1
    IN [i \in 1..last |-> decoded[i][1]]

\* every record is appended twice
ParseDoubled(output) ==
    LET decoded == [i \in 1..Len(output) |->
                       IF Truthy(Trim(output[i])) THEN json_decode_line(output[i])
                       ELSE <<>>]
        kept == SelectSeq(decoded, ResultIsTrue)
    IN [i \in 1..(2 * Len(kept)) |-> kept[(i + 1) \div 2][1]]

\* runHttpx, "Parse the JSON output": foreach ($output as $line), if (trim($line)),
\* json_decode, if ($result) $results[] = $result
ParseOutput(output) ==
    LET decoded == [i \in 1..Len(output) |->
                       IF Truthy(Trim(output[i])) THEN json_decode_line(output[i])
                       ELSE <<>>]
        kept == SelectSeq(decoded, ResultIsTrue)
    IN [i \in 1..Len(kept) |-> kept[i][1]]

\* what the httpx process can print for the hosts: nothing, a line per host, or
\* the first host's line and then a line cut short
HttpxOutputs(hosts) ==
    IF hosts = <<>> THEN { <<>> }
    ELSE { <<>>,
           [i \in 1..Len(hosts) |-> RecordLine(hosts[i])],
           <<RecordLine(hosts[1]), PartialLine(hosts[Len(hosts)])>> }

(***************************************************************************)
(* The PHP service                                                         *)
(***************************************************************************)
\* the parameters of a query string that index.php does not read
NoUnread == [background_task |-> <<>>, run_httpx |-> <<>>]

IdleReq ==
    [pc |-> "idle", kind |-> "domain", name |-> "e", unread |-> NoUnread,
     useCache |-> FALSE,
     conn |-> FALSE, tempId |-> 1, expired |-> FALSE, hit |-> <<>>,
     hosts |-> <<>>, output |-> <<>>, httpx |-> <<>>, ranHttpx |-> FALSE,
     wrote |-> FALSE, response |-> <<>>, outcome |-> "none"]

NoProc == [state |-> "none", out |-> <<>>, onTime |-> FALSE]

Launched(kind) == IF kind = "domain" THEN {"subfinder", "crtsh"} ELSE {"crtshorg"}

\* the output file each provider of a request writes
OutPath(r, p) ==
    <<IF p = "crtshorg" THEN "org" ELSE p, reqs[r].name, reqs[r].tempId>>

CombinedPath(r) == <<"domain", reqs[r].name, reqs[r].tempId>>

\* the files waitForFiles is given
Awaited(r) == {OutPath(r, p) : p \in Launched(reqs[r].kind)}

\* the files cleanupFiles is given
Owned(r) ==
    IF reqs[r].kind = "domain" THEN Awaited(r) \cup {CombinedPath(r)} ELSE Awaited(r)

\* the $result array: target, hosts, httpx_results, total
MakeResult(kind, name, hosts, httpx) ==
    [kind |-> kind, name |-> name, hosts |-> hosts, httpx |-> httpx,
     total |-> Len(hosts)]

Result(r, hosts, httpx) == MakeResult(reqs[r].kind, reqs[r].name, hosts, httpx)

\* what Redis (started with --appendonly yes) may hold for a key when the
\* model starts: nothing, or a result an earlier request stored
StoredEntries(key) ==
    {<<>>} \cup UNION {
        { <<json_encode(MakeResult(t[1], t[2], <<hApi, hWww>>, <<>>))>>,
          <<json_encode(MakeResult(t[1], t[2], <<hApi, hWww>>, <<hApi, hWww>>))>> }
        : t \in {u \in KeyTargets(key) : u[2] \in Names} }

\* the service before its first request, over a Redis store holding cache
ServiceStart(cache) ==
    /\ reqs = [r \in ReqIds |-> IdleReq]
    /\ procs = [r \in ReqIds |-> [p \in Providers |-> NoProc]]
    /\ files = [f \in Paths |-> NoFile]
    /\ redis = cache
    /\ expiry = [key \in CacheKeys |->
                    IF cache[key] = <<>> THEN NoExpiry
                    ELSE [age |-> 0, ttl |-> CACHE_EXPIRATION]]
    /\ redisUp = TRUE
    /\ lastId = 0

StoredCaches ==
    {c \in [CacheKeys -> UNION {StoredEntries(k) : k \in CacheKeys}] :
        \A k \in CacheKeys : c[k] \in StoredEntries(k)}

EmptyCache == [k \in CacheKeys |-> <<>>]

\* the request has started its providers and has not returned yet
Active(r) == reqs[r].pc \in {"wait", "exec", "combine", "httpx", "probe", "finish"}

\* uniqid(): the microsecond clock, so the next value, or the value another
\* request has just been given
uniqid(r) ==
    {id \in TempIds :
        \/ id = lastId + 1
        \/ /\ id = lastId
           /\ \E q \in ReqIds \ {r} :
                  reqs[q].pc \in {"wait", "exec"} /\ reqs[q].tempId = id}

\* the use_cache parameter of the query string, if given
UseCacheParams == {<<>>, <<"true">>, <<"false">>, <<"1">>, <<"0">>}

\* filter_var($value, FILTER_VALIDATE_BOOLEAN)
filter_var(value) == value \in {"1", "true", "on", "yes"}

\* index.php: isset(...) ? filter_var(...) : true
use_cache(param) == IF param = <<>> THEN TRUE ELSE filter_var(param[1])

\* getSubdomainsByDomain / getSubdomainsByOrganization up to the point where the
\* providers are started; unread is what else the query string carried
GetSubdomains(r, kind, name, useCache, unread) ==
    /\ UNCHANGED cliVars
    /\ reqs[r].pc = "idle"
    /\ \A q \in ReqIds : q < r => reqs[q].pc # "idle"
    /\ LET conn == redisUp
           cachedData == IF useCache THEN RedisGet(conn, CacheKey(kind, name)) ELSE <<>>
           arrived == [reqs[r] EXCEPT !.kind = kind, !.name = name,
                                      !.unread = unread,
                                      !.useCache = useCache, !.conn = conn,
                                      !.hit = cachedData]
       IN IF UseCached(useCache, cachedData)
          THEN /\ reqs' = [reqs EXCEPT ![r] =
                      [arrived EXCEPT !.pc = "done", !.response = cachedData,
                                      !.outcome = "ok"]]
               /\ UNCHANGED <<procs, files, redis, expiry, redisUp, lastId>>
          ELSE \E id \in uniqid(r) :
               /\ lastId' = id
               /\ reqs' = [reqs EXCEPT ![r] =
                      [arrived EXCEPT !.tempId = id,
                                      !.pc = IF kind = "domain" THEN "wait" ELSE "exec"]]
               /\ procs' = [procs EXCEPT ![r] =
                      [p \in Providers |->
                          IF p \in Launched(kind)
                          THEN [state |-> "running", out |-> <<>>, onTime |-> FALSE]
                          ELSE NoProc]]
               /\ UNCHANGED <<files, redis, expiry, redisUp>>

\* index.php routes a request that names its target and gives nothing but
\* the target and use_cache
Request(r, kind, name, useCache) == GetSubdomains(r, kind, name, useCache, NoUnread)

\* the query strings a request may bring: the target (domain or org_name)
\* missing, empty or a name; use_cache; background_task; run_httpx
Queries ==
    [target : {<<>>} \cup {<<name>> : name \in AllNames},
     use_cache : {<<>>, <<"false">>},
     background_task : {<<>>, <<"true">>},
     run_httpx : {<<>>, <<"false">>}]

\* index.php, case 'api': 400 if the target parameter is not set, else the
\* service is called with the target and use_cache
Route(r, kind, query) ==
    IF query.target = <<>>
    THEN /\ UNCHANGED cliVars
         /\ reqs[r].pc = "idle"
         /\ \A q \in ReqIds : q < r => reqs[q].pc # "idle"
         /\ reqs' = [reqs EXCEPT ![r].pc = "done", ![r].kind = kind,
                                 ![r].name = NoName,
                                 ![r].unread =
                                     [background_task |-> query.background_task,
                                      run_httpx |-> query.run_httpx],
                                 ![r].outcome = "invalid"]
         /\ UNCHANGED <<procs, files, redis, expiry, redisUp, lastId>>
    ELSE GetSubdomains(r, kind, query.target[1], use_cache(query.use_cache),
                       [background_task |-> query.background_task,
                        run_httpx |-> query.run_httpx])

\* the provider process opens its output file: the shell's "> file", subfinder's -o
ProviderOpens(r, p) ==
    /\ UNCHANGED cliVars
    /\ procs[r][p].state = "running"
    /\ procs' = [procs EXCEPT ![r][p].state = "writing"]
    /\ files' = [files EXCEPT ![OutPath(r, p)] =
                    [exists |-> TRUE, done |-> FALSE, lines |-> <<>>]]
    /\ UNCHANGED <<reqs, redis, expiry, redisUp, lastId>>

\* what a provider that runs to its end writes
ProviderOutputs(p) ==
    IF p = "subfinder" THEN SubfinderOutputs
    ELSE {CrtshPipeline(names) : names \in CrtshNames}

\* the provider process writes its lines and exits
ProviderFinishes(r, p) ==
    /\ UNCHANGED cliVars
    /\ procs[r][p].state = "writing"
    /\ \E out \in ProviderOutputs(p) :
        /\ procs' = [procs EXCEPT ![r][p] =
                        [state |-> "finished", out |-> out,
                         onTime |-> ~reqs[r].expired]]
        /\ files' = IF files[OutPath(r, p)].exists
                    THEN [files EXCEPT ![OutPath(r, p)] =
                             [exists |-> TRUE, done |-> TRUE, lines |-> out]]
                    ELSE files
    /\ UNCHANGED <<reqs, redis, expiry, redisUp, lastId>>

\* the provider fails: subfinder exits without output; a failed curl leaves the
\* rest of the pipeline to write an empty file
ProviderFails(r, p) ==
    /\ UNCHANGED cliVars
    /\ \/ p = "subfinder" /\ procs[r][p].state \in {"running", "writing"}
       \/ p # "subfinder" /\ procs[r][p].state = "writing"
    /\ procs' = [procs EXCEPT ![r][p].state = "failed"]
    /\ files' = IF p # "subfinder" /\ files[OutPath(r, p)].exists
                THEN [files EXCEPT ![OutPath(r, p)] =
                         [exists |-> TRUE, done |-> TRUE, lines |-> <<>>]]
                ELSE files
    /\ UNCHANGED <<reqs, redis, expiry, redisUp, lastId>>

\* timeoutSeconds have passed since the request started waiting
Deadline(r) ==
    /\ UNCHANGED cliVars
    /\ reqs[r].pc \in {"wait", "exec", "combine", "httpx", "probe", "finish"}
    /\ ~reqs[r].expired
    /\ reqs' = [reqs EXCEPT ![r].expired = TRUE]
    /\ UNCHANGED <<procs, files, redis, expiry, redisUp, lastId>>

\* runCrtshOrg: exec() without "&" returns when the pipeline has ended
ExecReturns(r) ==
    /\ UNCHANGED cliVars
    /\ reqs[r].pc = "exec"
    /\ procs[r]["crtshorg"].state \in {"finished", "failed"}
    /\ reqs' = [reqs EXCEPT ![r].pc = "wait"]
    /\ UNCHANGED <<procs, files, redis, expiry, redisUp, lastId>>

\* SubdomainService::waitForFiles: leaves the loop when every file exists or
\* when the timeout has passed
waitForFiles(r) ==
    /\ UNCHANGED cliVars
    /\ reqs[r].pc = "wait"
    /\ \/ \A f \in Awaited(r) : files[f].exists
       \/ reqs[r].expired
    /\ reqs' = [reqs EXCEPT ![r].pc = "combine"]
    /\ UNCHANGED <<procs, files, redis, expiry, redisUp, lastId>>

\* combineResults (domain) or the read at the end of runCrtshOrg (organization)
Combine(r) ==
    /\ UNCHANGED cliVars
    /\ reqs[r].pc = "combine"
    /\ IF reqs[r].kind = "domain"
       THEN LET merged == combineResults(files[OutPath(r, "subfinder")],
                                         files[OutPath(r, "crtsh")])
            IN /\ reqs' = [reqs EXCEPT ![r].hosts = merged, ![r].pc = "httpx"]
               /\ files' = [files EXCEPT ![CombinedPath(r)] =
                               [exists |-> TRUE, done |-> TRUE, lines |-> merged]]
       ELSE /\ reqs' = [reqs EXCEPT
                   ![r].hosts = readOrgOutput(files[OutPath(r, "crtshorg")]),
                   ![r].pc = "httpx"]
            /\ files' = files
    /\ UNCHANGED <<procs, redis, expiry, redisUp, lastId>>

\* config.php: define('MAX_THREADS', getenv('MAX_THREADS') ?: 10)
MAX_THREADS == 10

\* the number of probes httpx runs at a time when it is given no -threads option
HttpxDefaultThreads == 50

\* runHttpx: $cmd = "httpx -l {$tempFile} -silent -tech-detect -status-code -json"
HttpxCommand == {"-l", "-silent", "-tech-detect", "-status-code", "-json"}

\* the probes the httpx process started with cmd runs at a time
HttpxThreads(cmd) ==
    IF "-threads" \in cmd THEN MAX_THREADS ELSE HttpxDefaultThreads

\* the most host probes the httpx process of a call has in flight at a time
ProbesInFlight(r) ==
    IF reqs[r].pc = "probe"
    THEN IF Len(reqs[r].hosts) < HttpxThreads(HttpxCommand)
         THEN Len(reqs[r].hosts) ELSE HttpxThreads(HttpxCommand)
    ELSE 0

\* the list is never taken for empty
emptyNever(domains) == FALSE

\* PHP empty() of an array
empty(domains) == domains = <<>>

\* SubdomainService::runHttpx up to exec(): an empty list returns [] at once;
\* else the temp file is written and the httpx process started (ranHttpx), and
\* output is what the process prints while exec() waits for it
runHttpx(r) ==
    /\ UNCHANGED cliVars
    /\ reqs[r].pc = "httpx"
    /\ IF empty(reqs[r].hosts)
       THEN reqs' = [reqs EXCEPT ![r].httpx = <<>>, ![r].pc = "finish"]
       ELSE \E output \in HttpxOutputs(reqs[r].hosts) :
            reqs' = [reqs EXCEPT ![r].output = output, ![r].ranHttpx = TRUE,
                                 ![r].pc = "probe"]
    /\ UNCHANGED <<procs, files, redis, expiry, redisUp, lastId>>

\* SubdomainService::runHttpx after exec(): the output is parsed line by line,
\* the temp file removed and the records returned
HttpxReturns(r) ==
    /\ UNCHANGED cliVars
    /\ reqs[r].pc = "probe"
    /\ reqs' = [reqs EXCEPT ![r].httpx = ParseOutput(reqs[r].output),
                            ![r].pc = "finish"]
    /\ UNCHANGED <<procs, files, redis, expiry, redisUp, lastId>>

\* the result is cached whatever the caller asked
CacheTheResultAlways(useCache) == TRUE

\* "Cache the result if enabled": if ($useCache)
CacheTheResult(useCache) == useCache

\* the result is assembled, cached if enabled, the temp files removed, and returned
Finish(r) ==
    /\ UNCHANGED cliVars
    /\ reqs[r].pc = "finish"
    /\ LET result == Result(r, reqs[r].hosts, reqs[r].httpx)
           written == IF CacheTheResult(reqs[r].useCache)
                      THEN RedisSet(reqs[r].conn, CacheKey(reqs[r].kind, reqs[r].name),
                                    result, CACHE_EXPIRATION)
                      ELSE Stored(redis, expiry)
       IN /\ redis' = written.store
          /\ expiry' = written.expiry
          /\ reqs' = [reqs EXCEPT ![r].pc = "done", ![r].response = <<result>>,
                                  ![r].outcome = "ok",
                                  ![r].wrote =
                                      reqs[r].useCache /\ RedisSetReturns(reqs[r].conn)]
    /\ files' = [f \in Paths |-> IF f \in Owned(r) THEN NoFile ELSE files[f]]
    /\ UNCHANGED <<procs, redisUp, lastId>>

\* the Redis server stops answering, or answers again
RedisToggles ==
    /\ UNCHANGED cliVars
    /\ redisUp' = ~redisUp
    /\ UNCHANGED <<reqs, procs, files, redis, expiry, lastId>>

\* TimeStep seconds pass: Redis drops each entry whose expiration has run out
Elapse ==
    /\ UNCHANGED cliVars
    /\ \E key \in CacheKeys : redis[key] # <<>>
    /\ LET aged == [key \in CacheKeys |->
                       IF redis[key] = <<>> THEN NoExpiry
                       ELSE [expiry[key] EXCEPT !.age = @ + TimeStep]]
           gone(key) == aged[key].age >= aged[key].ttl
       IN /\ redis' = [key \in CacheKeys |-> IF gone(key) THEN <<>> ELSE redis[key]]
          /\ expiry' = [key \in CacheKeys |-> IF gone(key) THEN NoExpiry ELSE aged[key]]
    /\ UNCHANGED <<reqs, procs, files, redisUp, lastId>>

\* the result is cached before the statement that throws
ThrowsAfterWrite(r) ==
    /\ UNCHANGED cliVars
    /\ reqs[r].pc \in {"wait", "combine", "httpx", "probe"}
    /\ LET written == RedisSet(reqs[r].conn, CacheKey(reqs[r].kind, reqs[r].name),
                               Result(r, reqs[r].hosts, <<>>), CACHE_EXPIRATION)
       IN redis' = written.store /\ expiry' = written.expiry
    /\ reqs' = [reqs EXCEPT ![r].pc = "done", ![r].outcome = "error",
                            ![r].response = <<>>]
    /\ files' = [f \in Paths |-> IF f \in Owned(r) THEN NoFile ELSE files[f]]
    /\ UNCHANGED <<procs, redisUp, lastId>>

\* a statement of the try block throws: the catch block removes the temp
\* files and throws again, and index.php answers 500
Throws(r) ==
    /\ UNCHANGED cliVars
    /\ reqs[r].pc \in {"wait", "combine", "httpx", "probe"}
    /\ reqs' = [reqs EXCEPT ![r].pc = "done", ![r].outcome = "error",
                            ![r].response = <<>>]
    /\ files' = [f \in Paths |-> IF f \in Owned(r) THEN NoFile ELSE files[f]]
    /\ UNCHANGED <<procs, redis, expiry, redisUp, lastId>>

(***************************************************************************)
(* The job tracker behind /domains, /domains/status and /domains/httpx.    *)
(* Its code is not part of the sources; it is modelled from the data model *)
(* (Job, DiscoveryResult), the state machines and the HTTP interface of    *)
(* the specification.  res[t].hstatus is the enrichment_status of target t.*)
(***************************************************************************)
Targets == {"e"}

MaxInflight == 1

ProgressStep == 50

ServerHosts == <<hApi, hWww>>

NoJob == [status |-> "none", progress |-> 0]

NoRes == [has |-> FALSE, hstatus |-> "not_started", httpx |-> FALSE]

\* a response: ok is FALSE when axios throws; "none" is a field left out
Body(ok, status, progress, hstatus, hosts, httpx) ==
    [ok |-> ok, status |-> status, progress |-> progress, hstatus |-> hstatus,
     hosts |-> hosts, httpx |-> httpx]

FailBody == Body(FALSE, "none", 0, "none", <<>>, FALSE)

OkBody == Body(TRUE, "none", 0, "none", <<>>, FALSE)

ResultBody(hstatus, httpx) == Body(TRUE, "none", 0, hstatus, ServerHosts, httpx)

ProcessingBody(job) == Body(TRUE, "processing", job.progress, "none", <<>>, FALSE)

\* the poll contract: status(target) -> {status, progress, enrichment_status}
StatusBody(J, R, t) ==
    IF t \notin Targets \/ (J[t].status = "none" /\ ~R[t].has) THEN FailBody
    ELSE IF J[t].status = "none"
         THEN Body(TRUE, "completed", 100, R[t].hstatus, <<>>, FALSE)
         ELSE Body(TRUE, J[t].status, J[t].progress, R[t].hstatus, <<>>, FALSE)

Out(J, R, body) == [jobs |-> J, res |-> R, body |-> body]

\* a new DiscoveryResult replaces the stored one
NewResult(R, t, hstatus) ==
    [R EXCEPT ![t] = [has |-> TRUE, hstatus |-> hstatus,
                      httpx |-> (hstatus = "completed")]]

\* the enrichment_status a discovery leaves: enrichment ran inline or not at all
InlineEnrichment(rh) == IF rh THEN {"completed", "error"} ELSE {"not_started"}

\* GET /domains
Discover(J, R, q) ==
    LET t == q.target
    IN IF t \notin Targets THEN {Out(J, R, FailBody)}
       ELSE IF q.uc /\ R[t].has
       THEN {Out(J, R, ResultBody(R[t].hstatus, R[t].httpx))}
       ELSE IF J[t].status \in {"pending", "processing"}
       THEN {Out(J, R, ProcessingBody(J[t]))}
       ELSE IF q.bg
       THEN LET job == [status |-> "pending", progress |-> 0]
            IN {Out([J EXCEPT ![t] = job],
                    [R EXCEPT ![t].hstatus = IF q.rh THEN "running" ELSE "not_started",
                              ![t].httpx = FALSE],
                    ProcessingBody(job))}
       ELSE {Out(J, R, FailBody)} \cup
            {Out(J, IF q.uc THEN NewResult(R, t, hs) ELSE R,
                 ResultBody(hs, hs = "completed")) : hs \in InlineEnrichment(q.rh)}

\* GET /domains/httpx: enrichment only, against the stored base result
Scan(J, R, q) ==
    LET t == q.target
    IN IF t \notin Targets \/ ~R[t].has THEN {Out(J, R, FailBody)}
       ELSE IF R[t].hstatus \in {"not_started", "error"}
       THEN {Out(J, [R EXCEPT ![t].hstatus = "running"], OkBody),
             Out(J, R, FailBody)}
       ELSE {Out(J, R, OkBody), Out(J, R, FailBody)}

\* GET /domains/status
Status(J, R, q) == {Out(J, R, StatusBody(J, R, q.target))}

\* the three endpoints
Serve(J, R, q) ==
    IF q.endpoint = "status" THEN Status(J, R, q)
    ELSE IF q.endpoint = "httpx" THEN Scan(J, R, q)
    ELSE Discover(J, R, q)

\* the background job starts
JobStart(t) ==
    /\ jobs[t].status = "pending"
    /\ jobs' = [jobs EXCEPT ![t].status = "processing"]
    /\ UNCHANGED <<svcVars, ui, net, res>>

\* a stage of the background job ends
JobProgress(t) ==
    /\ jobs[t].status = "processing"
    /\ jobs[t].progress + ProgressStep < 100
    /\ jobs' = [jobs EXCEPT ![t].progress = @ + ProgressStep]
    /\ UNCHANGED <<svcVars, ui, net, res>>

\* the background job ends, inline enrichment included, and its result is stored
JobComplete(t) ==
    /\ jobs[t].status = "processing"
    /\ res[t].hstatus # "running"
    /\ jobs' = [jobs EXCEPT ![t].status = "completed", ![t].progress = 100]
    /\ res' = [res EXCEPT ![t].has = TRUE]
    /\ UNCHANGED <<svcVars, ui, net>>

\* the background job ends with an error
JobFail(t) ==
    /\ jobs[t].status = "processing"
    /\ jobs' = [jobs EXCEPT ![t].status = "error"]
    /\ UNCHANGED <<svcVars, ui, net, res>>

\* the enrichment (inline, or started by /domains/httpx) ends
EnrichFinish(t) ==
    /\ res[t].hstatus = "running"
    /\ res' = [res EXCEPT ![t].hstatus = "completed", ![t].httpx = TRUE]
    /\ UNCHANGED <<svcVars, ui, net, jobs>>

\* the enrichment (inline, or started by /domains/httpx) fails
EnrichFail(t) ==
    /\ res[t].hstatus = "running"
    /\ res' = [res EXCEPT ![t].hstatus = "error"]
    /\ UNCHANGED <<svcVars, ui, net, jobs>>

(***************************************************************************)
(* The DomainSearch page                                                   *)
(***************************************************************************)
Variants == {"v1", "v3"}

\* what the user types into the Domain Name field
DomainInputs == Targets

\* the useState slots.  error is "null", "request" (a message about the
\* discovery request or its job) or "scan" (the message about starting the
\* httpx scan); httpxError is "null" or "set"
InitUi(v) ==
    [variant |-> v, domain |-> "", useCache |-> TRUE, loading |-> FALSE,
     httpxLoading |-> FALSE, subdomains |-> <<>>, httpxResults |-> FALSE,
     taskStatus |-> "null", progress |-> 0, error |-> "null",
     httpxError |-> "null", httpxStatus |-> "not_started"]

\* the httpx polling effect, run after a render that changed httpxStatus or
\* domain: the third variant sets httpxLoading when it starts its interval
Render(old, new) ==
    LET httpxRuns == new.httpxStatus = "running" /\
                     (old.httpxStatus # "running" \/ old.domain # new.domain)
    IN [new EXCEPT
          !.httpxLoading = IF httpxRuns /\ new.variant = "v3" THEN TRUE ELSE @]

Msg(type, dom, body) == [type |-> type, dom |-> dom, body |-> body]

DomainsRequest(d, uc, bg, rh) ==
    [endpoint |-> "domains", target |-> d, uc |-> uc, bg |-> bg, rh |-> rh]

\* a poll that asks /domains for a background discovery instead
PollRequestDiscovers(d) == DomainsRequest(d, FALSE, TRUE, FALSE)

\* the request of both polling effects: GET /domains/status?domain=
PollRequest(d) ==
    [endpoint |-> "status", target |-> d, uc |-> FALSE, bg |-> FALSE, rh |-> FALSE]

HttpxRequest(d, uc) ==
    [endpoint |-> "httpx", target |-> d, uc |-> uc, bg |-> FALSE, rh |-> FALSE]

\* fetchResults and fetchHttpxResults send the same request
FetchRequest(d, uc) == DomainsRequest(d, uc, FALSE, FALSE)

\* a page that shows twice the progress it is handed
ShownProgressDoubled(p) == p + p

\* response.data.progress || 0
ShownProgress(p) == p

\* a button offered whatever the enrichment status
CanRunHttpxAlways(u) == u.subdomains # <<>>

\* the rendering condition and the disabled flag of the Run HTTPX Scan button
CanRunHttpx(u) ==
    /\ IF u.variant = "v3" THEN u.httpxStatus \in {"not_started", "error"}
       ELSE u.httpxStatus = "not_started"
    /\ u.subdomains # <<>>
    /\ ~u.httpxLoading

Req(type, q) == [type |-> type, q |-> q]

\* the response to request r on its way
Answer(r, body) == Msg(r.type, r.q.target, body)

\* a handler that starts an exchange waits while MaxInflight responses are on
\* their way
Room == Cardinality(net) < MaxInflight

\* the requests a handler sends one after the other (at most two): the server
\* answers each in turn and the answers are on their way
Sends(rs, kept) ==
    /\ IF rs = <<>>
       THEN /\ net' = kept
            /\ UNCHANGED <<jobs, res>>
       ELSE \E o1 \in Serve(jobs, res, rs[1].q) :
              IF Len(rs) = 1
              THEN /\ net' = kept \cup {Answer(rs[1], o1.body)}
                   /\ jobs' = o1.jobs
                   /\ res' = o1.res
              ELSE \E o2 \in Serve(o1.jobs, o1.res, rs[2].q) :
                   /\ net' = kept \cup {Answer(rs[1], o1.body), Answer(rs[2], o2.body)}
                   /\ jobs' = o2.jobs
                   /\ res' = o2.res

setDomain(d) ==
    /\ d # ui.domain
    /\ ui' = Render(ui, [ui EXCEPT !.domain = d])
    /\ UNCHANGED <<svcVars, net, jobs, res>>

setUseCache ==
    /\ ui' = Render(ui, [ui EXCEPT !.useCache = ~@])
    /\ UNCHANGED <<svcVars, net, jobs, res>>

\* handleSubmit up to its await; the button is disabled={loading || !domain}
Submits(useBackgroundTask, runHttpxSwitch) ==
    /\ ~ui.loading
    /\ ui.domain # ""
    /\ ui' = Render(ui,
          [ui EXCEPT !.loading = TRUE, !.error = "null",
                     !.httpxError = IF ui.variant = "v3" THEN "null" ELSE @,
                     !.subdomains = <<>>, !.httpxResults = FALSE,
                     !.progress = 0, !.taskStatus = "null",
                     !.httpxStatus = "not_started",
                     !.httpxLoading = IF ui.variant = "v3" THEN FALSE ELSE @])
    /\ Sends(<<Req("submit", DomainsRequest(ui.domain, ui.useCache,
                                            useBackgroundTask, runHttpxSwitch))>>,
             net)
    /\ UNCHANGED svcVars

\* a search submitted while fewer than MaxInflight responses are on their way
handleSubmit(useBackgroundTask, runHttpxSwitch) ==
    Room /\ Submits(useBackgroundTask, runHttpxSwitch)

\* a result is shown and the loading flag left as it is
ShowResultKeepsLoading(u, b, isFetch) ==
    IF b.status # "none" THEN u ELSE [u EXCEPT !.subdomains = b.hosts]

\* what handleSubmit and fetchResults do with a DiscoveryResult
ShowResult(u, b, isFetch) ==
    LET v3 == u.variant = "v3"
        u1 == IF b.status # "none" THEN u
              ELSE [u EXCEPT !.subdomains = b.hosts,
                             !.httpxResults = IF v3 THEN (IF b.httpx THEN TRUE ELSE @)
                                              ELSE b.httpx]
        u2 == IF b.hstatus = "none" THEN u1
              ELSE [u1 EXCEPT
                      !.httpxStatus = b.hstatus,
                      !.httpxLoading =
                          IF ~v3 THEN @
                          ELSE IF b.hstatus = "running" THEN TRUE
                          ELSE IF b.hstatus = "error" THEN @
                          ELSE IF isFetch THEN FALSE ELSE @,
                      !.httpxError = IF v3 /\ b.hstatus = "error"
                                     THEN "set" ELSE @]
    IN [u2 EXCEPT !.loading = FALSE]

\* handleSubmit after its await
SubmitResponse(m) ==
    /\ m \in net /\ m.type = "submit"
    /\ net' = net \ {m}
    /\ ui' = Render(ui,
          IF ~m.body.ok THEN [ui EXCEPT !.error = "request", !.loading = FALSE]
          ELSE IF m.body.status = "processing"
          THEN [ui EXCEPT !.taskStatus = "processing"]
          ELSE ShowResult(ui, m.body, FALSE))
    /\ UNCHANGED <<svcVars, jobs, res>>

\* one tick of the interval of the status polling effect, up to its await
PollTick ==
    /\ ui.taskStatus = "processing"
    /\ Room
    /\ Sends(<<Req("poll", PollRequest(ui.domain))>>, net)
    /\ UNCHANGED <<svcVars, ui>>

\* one tick of the interval of the httpx polling effect, up to its await
HttpxPollTick ==
    /\ ui.httpxStatus = "running"
    /\ Room
    /\ Sends(<<Req("httpxPoll", PollRequest(ui.domain))>>, net)
    /\ UNCHANGED <<svcVars, ui>>

\* a callback that shows the progress and lets the interval run on
PollShownKeepsPolling(u, b) == [u EXCEPT !.progress = ShownProgress(b.progress)]

\* the callback of the status polling effect after its await: what it sets
PollShown(u, b) ==
    LET v3 == u.variant = "v3"
        u1 == [u EXCEPT !.progress = ShownProgress(b.progress)]
        u2 == IF b.status = "completed" THEN [u1 EXCEPT !.taskStatus = "completed"]
              ELSE IF b.status = "error"
              THEN [u1 EXCEPT !.taskStatus = "error", !.error = "request",
                              !.loading = FALSE]
              ELSE u1
    IN IF b.hstatus = "none" THEN u2
       ELSE [u2 EXCEPT !.httpxStatus = b.hstatus,
                       !.httpxError = IF v3 /\ b.hstatus = "error"
                                      THEN "set" ELSE @,
                       !.httpxLoading = IF v3 /\ b.hstatus = "error"
                                        THEN FALSE ELSE @]

\* ... and what it fetches: fetchResults(), then fetchHttpxResults()
PollFetches(m) ==
    (IF m.body.status = "completed"
     THEN <<Req("results", FetchRequest(m.dom, ui.useCache))>> ELSE <<>>)
    \o
    (IF m.body.hstatus = "completed"
     THEN <<Req("httpxResults", FetchRequest(m.dom, ui.useCache))>> ELSE <<>>)

PollResponse(m) ==
    /\ m \in net /\ m.type = "poll"
    /\ IF m.body.ok
       THEN /\ ui' = Render(ui, PollShown(ui, m.body))
            /\ Sends(PollFetches(m), net \ {m})
       ELSE /\ ui' = ui
            /\ Sends(<<>>, net \ {m})
    /\ UNCHANGED svcVars

\* the callback of the httpx polling effect after its await
HttpxPollResponse(m) ==
    /\ m \in net /\ m.type = "httpxPoll"
    /\ LET v3 == ui.variant = "v3"
           b == m.body
       IN IF b.ok /\ b.hstatus = "completed"
          THEN /\ ui' = Render(ui, [ui EXCEPT !.httpxStatus = "completed",
                                              !.httpxLoading = IF v3 THEN FALSE ELSE @])
               /\ Sends(<<Req("httpxResults", FetchRequest(m.dom, ui.useCache))>>,
                        net \ {m})
          ELSE /\ ui' = IF b.ok /\ b.hstatus = "error" /\ v3
                        THEN Render(ui, [ui EXCEPT !.httpxStatus = "error",
                                                   !.httpxLoading = FALSE,
                                                   !.httpxError = "set"])
                        ELSE ui
               /\ Sends(<<>>, net \ {m})
    /\ UNCHANGED svcVars

\* fetchResults after its await
ResultsResponse(m) ==
    /\ m \in net /\ m.type = "results"
    /\ net' = net \ {m}
    /\ ui' = Render(ui,
          IF m.body.ok THEN ShowResult(ui, m.body, TRUE)
          ELSE [ui EXCEPT !.error = "request", !.loading = FALSE])
    /\ UNCHANGED <<svcVars, jobs, res>>

\* fetchHttpxResults after its await
HttpxResultsResponse(m) ==
    /\ m \in net /\ m.type = "httpxResults"
    /\ net' = net \ {m}
    /\ LET v3 == ui.variant = "v3"
           b == m.body
           present == b.ok /\ b.status = "none"
       IN ui' = Render(ui,
             [ui EXCEPT !.httpxResults = IF present THEN b.httpx ELSE @,
                        !.httpxLoading = IF v3 /\ b.ok /\ ~present THEN @ ELSE FALSE,
                        !.httpxError = IF v3 /\ ~b.ok THEN "set" ELSE @])
    /\ UNCHANGED <<svcVars, jobs, res>>

\* runHttpxScan up to its await
runHttpxScan ==
    /\ CanRunHttpx(ui)
    /\ Room
    /\ ui' = Render(ui,
          [ui EXCEPT !.httpxLoading = TRUE, !.httpxStatus = "running",
                     !.httpxError = IF ui.variant = "v3" THEN "null" ELSE @])
    /\ Sends(<<Req("scan", HttpxRequest(ui.domain, ui.useCache))>>, net)
    /\ UNCHANGED svcVars

\* the slot the catch block of runHttpxScan reports in: setHttpxError in the
\* third variant, setError in the first
ScanFailed(u) ==
    IF u.variant = "v3"
    THEN [u EXCEPT !.httpxStatus = "error", !.httpxError = "set",
                   !.httpxLoading = FALSE]
    ELSE [u EXCEPT !.httpxStatus = "error", !.error = "scan",
                   !.httpxLoading = FALSE]

\* runHttpxScan after its await
ScanResponse(m) ==
    /\ m \in net /\ m.type = "scan"
    /\ net' = net \ {m}
    /\ ui' = IF m.body.ok THEN ui ELSE Render(ui, ScanFailed(ui))
    /\ UNCHANGED <<svcVars, jobs, res>>

\* the page before its first render, the tracker without jobs
ClientStart(v) ==
    /\ ui = InitUi(v)
    /\ net = {}
    /\ jobs = [t \in Targets |-> NoJob]
    /\ res = [t \in Targets |-> NoRes]

Init == \E cache \in StoredCaches : ServiceStart(cache) /\ ClientStart("v3")

\* one request, with everything the environment can do
Next ==
    \/ \E kind \in Kinds, name \in Names, param \in UseCacheParams :
          Request(1, kind, name, use_cache(param))
    \/ \E p \in Providers : ProviderOpens(1, p)
    \/ \E p \in Providers : ProviderFinishes(1, p)
    \/ \E p \in Providers : ProviderFails(1, p)
    \/ Deadline(1)
    \/ ExecReturns(1)
    \/ waitForFiles(1)
    \/ Combine(1)
    \/ runHttpx(1)
    \/ HttpxReturns(1)
    \/ Finish(1)
    \/ RedisToggles
    \/ Elapse
    \/ Throws(1)

Spec == Init /\ [][Next]_vars

\* domain requests with the cache enabled, handled at the same time
NextConcurrent ==
    \/ \E r \in ReqIds, name \in Names : Request(r, "domain", name, TRUE)
    \/ \E r \in ReqIds, p \in Providers : ProviderOpens(r, p)
    \/ \E r \in ReqIds, p \in Providers : ProviderFinishes(r, p)
    \/ \E r \in ReqIds : waitForFiles(r)
    \/ \E r \in ReqIds : Combine(r)
    \/ \E r \in ReqIds : runHttpx(r)
    \/ \E r \in ReqIds : HttpxReturns(r)
    \/ \E r \in ReqIds : Finish(r)

InitConcurrent == ServiceStart(EmptyCache) /\ ClientStart("v3")

SpecConcurrent == InitConcurrent /\ [][NextConcurrent]_vars

\* two calls for the same domain with the cache enabled, the second made
\* after the first returned, both within their deadline; the providers of a
\* call that has returned are left out, their files being no one's any more
Calls == {1, 2}

NextSuccessive ==
    \/ \E name \in Names : Request(1, "domain", name, TRUE)
    \/ /\ reqs[1].pc = "done"
       /\ Request(2, "domain", reqs[1].name, TRUE)
    \/ \E r \in Calls, p \in Providers : Active(r) /\ ProviderOpens(r, p)
    \/ \E r \in Calls, p \in Providers : Active(r) /\ ProviderFinishes(r, p)
    \/ \E r \in Calls, p \in Providers : Active(r) /\ ProviderFails(r, p)
    \/ \E r \in Calls : waitForFiles(r)
    \/ \E r \in Calls : Combine(r)
    \/ \E r \in Calls : runHttpx(r)
    \/ \E r \in Calls : HttpxReturns(r)
    \/ \E r \in Calls : Finish(r)
    \/ \E r \in Calls : Throws(r)
    \/ RedisToggles
    \/ Elapse

InitSuccessive == ServiceStart(EmptyCache) /\ ClientStart("v3")

SpecSuccessive == InitSuccessive /\ [][NextSuccessive]_vars

\* the merge of a domain call, over what its two providers may have written
MaxLines == 3

hBlank == <<" ">>

hBare == <<"e">>

\* lines subfinder may write, and names crt.sh may answer
LinePool == {hWww, hApi, hApiUp, hWild, hMail, hBlank}

NamePool == {hWww, hApi, hApiUp, hWild, hMail}

SubfinderFiles ==
    {NoFile} \cup
    {[exists |-> TRUE, done |-> TRUE, lines |-> q] :
        q \in UNION {[1..n -> LinePool] : n \in 0..MaxLines}}

CrtshFiles ==
    {NoFile} \cup
    {[exists |-> TRUE, done |-> TRUE, lines |-> CrtshPipeline(names)] :
        names \in {S \in SUBSET NamePool : Cardinality(S) <= MaxLines}}

\* call 1, a domain call, has left waitForFiles with these two files
MergeStart(subfinderFile, crtshFile) ==
    /\ reqs = [r \in ReqIds |->
                  IF r = 1 THEN [IdleReq EXCEPT !.pc = "combine"] ELSE IdleReq]
    /\ procs = [r \in ReqIds |-> [p \in Providers |->
                  IF r = 1 /\ p = "subfinder"
                  THEN [state |-> IF subfinderFile.exists THEN "finished" ELSE "failed",
                        out |-> subfinderFile.lines, onTime |-> subfinderFile.exists]
                  ELSE IF r = 1 /\ p = "crtsh"
                  THEN [state |-> IF crtshFile.exists THEN "finished" ELSE "running",
                        out |-> crtshFile.lines, onTime |-> crtshFile.exists]
                  ELSE NoProc]]
    /\ files = [f \in Paths |->
                  IF f = <<"subfinder", "e", 1>> THEN subfinderFile
                  ELSE IF f = <<"crtsh", "e", 1>> THEN crtshFile
                  ELSE NoFile]
    /\ redis = EmptyCache
    /\ expiry = [key \in CacheKeys |-> NoExpiry]
    /\ redisUp = TRUE
    /\ lastId = 1

InitMerge ==
    \E subfinderFile \in SubfinderFiles, crtshFile \in CrtshFiles :
        MergeStart(subfinderFile, crtshFile) /\ ClientStart("v3")

NextMerge == Combine(1)

SpecMerge == InitMerge /\ [][NextMerge]_vars

\* the parse of runHttpx over every output of at most MaxLines lines: records of
\* the two probed hosts, a record cut short, an empty line, a blank line, an
\* object without members, the text 0 and a record after a space
hEmptyObject == <<"{", "}">>

hZero == <<"0">>

OutputLines ==
    {RecordLine(hApi), RecordLine(hWww), PartialLine(hApi), <<>>, hBlank,
     hEmptyObject, hZero, hBlank \o RecordLine(hApi)}

Outputs == UNION {[1..n -> OutputLines] : n \in 0..MaxLines}

\* call 1 is inside exec() of runHttpx, the process having printed output
ProbeStart(output) ==
    /\ reqs = [r \in ReqIds |->
                 IF r = 1
                 THEN [IdleReq EXCEPT !.pc = "probe", !.useCache = TRUE,
                                      !.conn = TRUE, !.hosts = <<hApi, hWww>>,
                                      !.output = output, !.ranHttpx = TRUE]
                 ELSE IdleReq]
    /\ procs = [r \in ReqIds |-> [p \in Providers |->
                  IF r = 1 /\ p = "subfinder"
                  THEN [state |-> "finished", out |-> <<hWww, hApi>>, onTime |-> TRUE]
                  ELSE IF r = 1 /\ p = "crtsh"
                  THEN [state |-> "failed", out |-> <<>>, onTime |-> FALSE]
                  ELSE NoProc]]
    /\ files = [f \in Paths |->
                  IF f = <<"subfinder", "e", 1>>
                  THEN [exists |-> TRUE, done |-> TRUE, lines |-> <<hWww, hApi>>]
                  ELSE IF f = <<"crtsh", "e", 1>>
                  THEN [exists |-> TRUE, done |-> TRUE, lines |-> <<>>]
                  ELSE IF f = <<"domain", "e", 1>>
                  THEN [exists |-> TRUE, done |-> TRUE, lines |-> <<hApi, hWww>>]
                  ELSE NoFile]
    /\ redis = EmptyCache
    /\ expiry = [key \in CacheKeys |-> NoExpiry]
    /\ redisUp = TRUE
    /\ lastId = 1

InitProbe == \E output \in Outputs : ProbeStart(output) /\ ClientStart("v3")

NextProbe == HttpxReturns(1) \/ Finish(1)

SpecProbe == InitProbe /\ [][NextProbe]_vars

\* one request with any query string, over a store that may hold a result
\* for each key, within the deadline and with Redis answering
FullEntry(kind, name) ==
    <<json_encode(MakeResult(kind, name, <<hApi, hWww>>, <<hApi, hWww>>))>>

RouteCaches ==
    {c \in [CacheKeys -> {<<>>} \cup {FullEntry(t[1], t[2]) : t \in Kinds \X AllNames}] :
        \A key \in CacheKeys :
            c[key] \in {<<>>} \cup {FullEntry(t[1], t[2]) : t \in KeyTargets(key)}}

InitRoute == \E cache \in RouteCaches : ServiceStart(cache) /\ ClientStart("v3")

NextRoute ==
    \/ \E kind \in Kinds, query \in Queries : Route(1, kind, query)
    \/ \E p \in Providers : ProviderOpens(1, p)
    \/ \E p \in Providers : ProviderFinishes(1, p)
    \/ \E p \in Providers : ProviderFails(1, p)
    \/ ExecReturns(1)
    \/ waitForFiles(1)
    \/ Combine(1)
    \/ runHttpx(1)
    \/ HttpxReturns(1)
    \/ Finish(1)

SpecRoute == InitRoute /\ [][NextRoute]_vars

\* the enrichment of merged lists of up to MaxHosts hosts
MaxHosts == 12

\* a.e, aa.e, aaa.e, ...
HostN(n) == [j \in 1..n |-> "a"] \o <<".", "e">>

\* call 1 has merged n hosts and is about to call runHttpx
EnrichStart(n, useCache) ==
    /\ reqs = [r \in ReqIds |->
                 IF r = 1
                 THEN [IdleReq EXCEPT !.pc = "httpx", !.useCache = useCache,
                                      !.conn = TRUE,
                                      !.hosts = [i \in 1..n |-> HostN(i)]]
                 ELSE IdleReq]
    /\ procs = [r \in ReqIds |-> [p \in Providers |->
                  IF r = 1 /\ p \in Launched("domain")
                  THEN [state |-> "finished", out |-> <<>>, onTime |-> TRUE]
                  ELSE NoProc]]
    /\ files = [f \in Paths |->
                  IF f \in {<<"subfinder", "e", 1>>, <<"crtsh", "e", 1>>,
                             <<"domain", "e", 1>>}
                  THEN [exists |-> TRUE, done |-> TRUE, lines |-> <<>>]
                  ELSE NoFile]
    /\ redis = EmptyCache
    /\ expiry = [key \in CacheKeys |-> NoExpiry]
    /\ redisUp = TRUE
    /\ lastId = 1

InitEnrich ==
    \E n \in 0..MaxHosts, useCache \in BOOLEAN :
        EnrichStart(n, useCache) /\ ClientStart("v3")

NextEnrich == runHttpx(1) \/ HttpxReturns(1) \/ Finish(1)

SpecEnrich == InitEnrich /\ [][NextEnrich]_vars

\* the page, in either variant, and the job tracker it talks to
InitClient == \E v \in Variants : ServiceStart(EmptyCache) /\ ClientStart(v)

NextClient ==
    \/ \E d \in DomainInputs : setDomain(d)
    \/ setUseCache
    \/ \E bg \in BOOLEAN, rh \in BOOLEAN : handleSubmit(bg, rh)
    \/ \E m \in net : SubmitResponse(m)
    \/ PollTick
    \/ \E m \in net : PollResponse(m)
    \/ HttpxPollTick
    \/ \E m \in net : HttpxPollResponse(m)
    \/ \E m \in net : ResultsResponse(m)
    \/ \E m \in net : HttpxResultsResponse(m)
    \/ runHttpxScan
    \/ \E m \in net : ScanResponse(m)
    \/ \E t \in Targets : JobStart(t)
    \/ \E t \in Targets : JobProgress(t)
    \/ \E t \in Targets : JobComplete(t)
    \/ \E t \in Targets : JobFail(t)
    \/ \E t \in Targets : EnrichFinish(t)
    \/ \E t \in Targets : EnrichFail(t)

SpecClient == InitClient /\ [][NextClient]_vars

\* the page and the tracker when what is pending is done in the end: every
\* response on its way arrives and its callback runs; an interval that is
\* set goes on ticking, however often a tick finds MaxInflight responses
\* still on their way; the job and the enrichment of the tracker go on to an
\* end.  The user is bound to nothing.
JobRuns ==
    \E t \in Targets : JobStart(t) \/ JobComplete(t) \/ JobFail(t)

EnrichmentEnds == \E t \in Targets : EnrichFinish(t) \/ EnrichFail(t)

SpecClientFair ==
    /\ SpecClient
    /\ WF_vars(\E m \in net : SubmitResponse(m))
    /\ WF_vars(\E m \in net : PollResponse(m))
    /\ WF_vars(\E m \in net : HttpxPollResponse(m))
    /\ WF_vars(\E m \in net : ResultsResponse(m))
    /\ WF_vars(\E m \in net : HttpxResultsResponse(m))
    /\ WF_vars(\E m \in net : ScanResponse(m))
    /\ SF_vars(PollTick)
    /\ SF_vars(HttpxPollTick)
    /\ WF_vars(JobRuns)
    /\ WF_vars(EnrichmentEnds)

\* the search of the third variant on its own: the user types, switches the
\* cache and submits; no httpx scan is asked for by hand and the job reports
\* no progress between its start and its end.  What is pending is done in
\* the end, as in SpecClientFair
NextSearch ==
    \/ \E d \in DomainInputs : setDomain(d)
    \/ setUseCache
    \/ \E bg \in BOOLEAN, rh \in BOOLEAN : handleSubmit(bg, rh)
    \/ \E m \in net : SubmitResponse(m)
    \/ PollTick
    \/ \E m \in net : PollResponse(m)
    \/ HttpxPollTick
    \/ \E m \in net : HttpxPollResponse(m)
    \/ \E m \in net : ResultsResponse(m)
    \/ \E m \in net : HttpxResultsResponse(m)
    \/ \E t \in Targets : JobStart(t)
    \/ \E t \in Targets : JobComplete(t)
    \/ \E t \in Targets : JobFail(t)
    \/ \E t \in Targets : EnrichFinish(t)
    \/ \E t \in Targets : EnrichFail(t)

SpecSearch ==
    /\ ServiceStart(EmptyCache) /\ ClientStart("v3")
    /\ [][NextSearch]_vars
    /\ WF_vars(\E m \in net : SubmitResponse(m))
    /\ WF_vars(\E m \in net : PollResponse(m))
    /\ WF_vars(\E m \in net : HttpxPollResponse(m))
    /\ WF_vars(\E m \in net : ResultsResponse(m))
    /\ WF_vars(\E m \in net : HttpxResultsResponse(m))
    /\ SF_vars(PollTick)
    /\ SF_vars(HttpxPollTick)
    /\ WF_vars(JobRuns)
    /\ WF_vars(EnrichmentEnds)

\* the page of the third variant with a user who may type a second name, f,
\* for which the service has nothing, and who may submit a search while one
\* more response is still on its way
EditInputs == Targets \cup {"f"}

NextEdit ==
    \/ \E d \in EditInputs : setDomain(d)
    \/ setUseCache
    \/ \E bg \in BOOLEAN, rh \in BOOLEAN :
          Cardinality(net) <= MaxInflight /\ Submits(bg, rh)
    \/ \E m \in net : SubmitResponse(m)
    \/ PollTick
    \/ \E m \in net : PollResponse(m)
    \/ HttpxPollTick
    \/ \E m \in net : HttpxPollResponse(m)
    \/ \E m \in net : ResultsResponse(m)
    \/ \E m \in net : HttpxResultsResponse(m)
    \/ runHttpxScan
    \/ \E m \in net : ScanResponse(m)
    \/ \E t \in Targets : JobStart(t)
    \/ \E t \in Targets : JobProgress(t)
    \/ \E t \in Targets : JobComplete(t)
    \/ \E t \in Targets : JobFail(t)
    \/ \E t \in Targets : EnrichFinish(t)
    \/ \E t \in Targets : EnrichFail(t)

InitEdit == ServiceStart(EmptyCache) /\ ClientStart("v3")

SpecEdit == InitEdit /\ [][NextEdit]_vars

(***************************************************************************)
(* The normal form the data model gives a hostname                         *)
(***************************************************************************)
LowerChar(c) == IF c = "A" THEN "a" ELSE c

CaseFold(s) == [i \in 1..Len(s) |-> LowerChar(s[i])]

HasLeadingWildcard(s) == Len(s) >= 2 /\ s[1] = "*" /\ s[2] = "."

Normalize(s) ==
    LET t == Trim(s)
    IN CaseFold(IF HasLeadingWildcard(t) THEN SubSeq(t, 3, Len(t)) ELSE t)

ValidHost(s) == s # <<>> /\ ~HasAt(s)

\* the request started providers (it was not served from the cache)
FannedOut(r) == \E p \in Providers : procs[r][p].state # "none"

\* the providers of the request that ran to their end before the deadline
Completed(r) ==
    {p \in Launched(reqs[r].kind) :
        procs[r][p].state = "finished" /\ procs[r][p].onTime}

(***************************************************************************)
(* Claims                                                                  *)
(***************************************************************************)

\* C1: at most one discovery pipeline per target is active at any time: a
\* request for a target whose pipeline is still running starts no second
\* provider fan-out.
C1_OnePipelinePerTarget ==
    \A r1 \in ReqIds, r2 \in ReqIds :
        (r1 # r2 /\ Active(r1) /\ Active(r2))
            => <<reqs[r1].kind, reqs[r1].name>> # <<reqs[r2].kind, reqs[r2].name>>

\* C2: with useCache set, a cache entry that get returns for the target's key
\* is the response, exactly as stored; no provider is started and the prober
\* does not run.
C2_CacheHitReturnsEntry ==
    \A r \in ReqIds :
        (reqs[r].useCache /\ reqs[r].hit # <<>>)
            => /\ reqs[r].pc = "done"
               /\ reqs[r].outcome = "ok"
               /\ reqs[r].response = reqs[r].hit
               /\ ~FannedOut(r)
               /\ ~reqs[r].ranHttpx
               /\ ~reqs[r].wrote

\* C2 witness: a request was served an entry whose enrichment is empty
C2_Witness ==
    \E r \in ReqIds :
        /\ reqs[r].useCache
        /\ reqs[r].hit # <<>>
        /\ reqs[r].response = reqs[r].hit
        /\ reqs[r].response[1].hosts # <<>>
        /\ reqs[r].response[1].httpx = <<>>

\* C3: when no provider has produced its output by the deadline, the call
\* fails and no cache entry is written.
C3_TotalFailureFails ==
    \A r \in ReqIds :
        (reqs[r].pc = "done" /\ FannedOut(r) /\ reqs[r].expired /\ Completed(r) = {})
            => (reqs[r].outcome = "error" /\ ~reqs[r].wrote)

\* C4: when some but not all providers have completed by the deadline, the
\* call returns without error and its DiscoverySet holds, up to
\* normalization, every hostname the completed providers wrote.
C4_PartialFailureUnion ==
    \A r \in ReqIds :
        (/\ reqs[r].pc = "done"
         /\ FannedOut(r)
         /\ reqs[r].expired
         /\ Completed(r) # {}
         /\ Completed(r) # Launched(reqs[r].kind))
            => /\ reqs[r].outcome = "ok"
               /\ reqs[r].response # <<>>
               /\ \A p \in Completed(r) : \A h \in Range(procs[r][p].out) :
                     ValidHost(Normalize(h)) =>
                        \E g \in Range(reqs[r].response[1].hosts) :
                            Normalize(g) = Normalize(h)

\* C5: the merged DiscoverySet has no two entries equal after case-folding,
\* no entry with a leading "*.", no empty entry and no entry with an "@".
C5_MergedSetNormalized ==
    \A r \in ReqIds :
        reqs[r].pc \in {"httpx", "probe", "finish", "done"} =>
            LET hosts == reqs[r].hosts
            IN /\ \A i \in 1..Len(hosts), j \in 1..Len(hosts) :
                     i # j => CaseFold(hosts[i]) # CaseFold(hosts[j])
               /\ \A i \in 1..Len(hosts) :
                     /\ ~HasLeadingWildcard(hosts[i])
                     /\ hosts[i] # <<>>
                     /\ ~HasAt(hosts[i])

(***************************************************************************)
(* Steps of the page and the tracker, as the claims below speak of them    *)
(***************************************************************************)
Terminal == {"completed", "error"}

JobEdges ==
    {<<"pending", "processing">>, <<"processing", "completed">>,
     <<"processing", "error">>}

EnrichEdges ==
    {<<"not_started", "running">>, <<"running", "completed">>,
     <<"running", "error">>, <<"error", "running">>}

\* the responses a step hands to their callbacks, and the ones it sends off
Delivered == net \ net'

Sent == net' \ net

PollTypes == {"poll", "httpxPoll"}

\* a discovery request of handleSubmit made the tracker create a Job for the
\* target
NewJob(t) ==
    /\ jobs[t].status \in {"none"} \cup Terminal
    /\ jobs'[t].status = "pending"
    /\ jobs'[t].progress = 0
    /\ ~ui.loading /\ ui'.loading /\ ui.domain = t

\* a discovery began a new DiscoveryResult for the target: a new Job, or a
\* direct discovery that stored its result
NewResultBegun(t) == NewJob(t) \/ (~res[t].has /\ res'[t].has)

\* C6: a Job's status changes only along pending -> processing -> completed
\* or processing -> error; a completed or failed Job changes no more (a later
\* discovery request creates a new Job); and the callback that is handed a
\* terminal status leaves the page with its status polling stopped.
C6_JobStatusMachine ==
    [][/\ \A t \in Targets :
              jobs'[t].status # jobs[t].status =>
                  \/ <<jobs[t].status, jobs'[t].status>> \in JobEdges
                  \/ NewJob(t)
       /\ \A m \in Delivered :
              (m.type = "poll" /\ m.body.ok /\ m.body.status \in Terminal)
                  => /\ ui'.taskStatus = m.body.status
                     /\ ui'.taskStatus # "processing"]_vars

\* C6 witness: the page has been handed the error status of the Job of its
\* target and shows it
C6_Witness ==
    /\ ui.domain \in Targets
    /\ jobs[ui.domain].status = "error"
    /\ ui.taskStatus = "error"

\* C7: the progress of a Job is an integer within 0..100 that never
\* decreases; every status poll is answered with the Job's progress at that
\* time, and the page shows the progress it is handed.
C7_ProgressMonotone ==
    [][/\ \A t \in Targets :
              /\ jobs'[t].progress \in 0..100
              /\ ~NewJob(t) => jobs'[t].progress >= jobs[t].progress
       /\ \A m \in Sent :
              (m.type \in PollTypes /\ m.body.ok /\ jobs[m.dom].status # "none")
                  => m.body.progress = jobs[m.dom].progress
       /\ \A m \in Delivered :
              (m.type = "poll" /\ m.body.ok)
                  => ui'.progress = m.body.progress /\ ui'.progress \in 0..100]_vars

\* C7 witness: the page is polling and shows the progress of a Job half done
C7_Witness ==
    /\ ui.taskStatus = "processing"
    /\ ui.progress = ProgressStep
    /\ jobs[ui.domain].status = "processing"

\* C8: a step in which a status poll is sent and answered leaves the Job
\* (status, progress), the stored result with its enrichment_status, and
\* the cache as they were.
C8_PollChangesNothing ==
    [][(\E m \in Sent : m.type \in PollTypes)
          => UNCHANGED <<jobs, res, svcVars>>]_vars

\* C8 witness: an httpx poll was answered while the enrichment was running
C8_Witness ==
    \E m \in net : m.type = "httpxPoll" /\ m.body.ok /\ m.body.hstatus = "running"

\* C9: the enrichment_status of a stored result changes only along
\* not_started -> running -> completed, running -> error and error ->
\* running; the page starts a scan only from not_started or error, whatever
\* the Job status, and is running afterwards.
C9_EnrichmentStatusMachine ==
    [][/\ \A t \in Targets :
              res'[t].hstatus # res[t].hstatus =>
                  \/ <<res[t].hstatus, res'[t].hstatus>> \in EnrichEdges
                  \/ NewResultBegun(t)
       /\ (\E m \in Sent : m.type = "scan")
              => /\ ui.httpxStatus \in {"not_started", "error"}
                 /\ ui'.httpxStatus = "running"]_vars

\* C9 witness: the Job is completed, the enrichment of its result has failed,
\* and the page offers the retry
C9_Witness ==
    /\ ui.domain \in Targets
    /\ jobs[ui.domain].status = "completed"
    /\ res[ui.domain].hstatus = "error"
    /\ ui.httpxStatus = "error"
    /\ CanRunHttpx(ui)

\* C10: when an enrichment fails, the DiscoverySet the page shows stays, the
\* page's enrichment status is error, and the request-level error is what it
\* was before.
C10_EnrichmentFailureContained ==
    [][\A m \in Delivered :
          (m.type = "scan" /\ ~m.body.ok)
             => /\ ui'.subdomains = ui.subdomains
                /\ ui'.httpxStatus = "error"
                /\ ui'.error = ui.error]_vars

(***************************************************************************)
(* Claims about the cache                                                  *)
(***************************************************************************)

\* the call arrives in this step
Arrives(r) == reqs[r].pc = "idle" /\ reqs'[r].pc # "idle"

\* the key of the call's target
KeyOf(r) == CacheKey(reqs[r].kind, reqs[r].name)

\* C11: of two successive calls for the same target with use_cache=true, the
\* second, arriving while the cache answers and still holds the entry the
\* first wrote, is answered from that entry: it returns what the first
\* returned, the DiscoverySet included, starts no provider and writes
\* nothing.
C11_SecondCallFromCache ==
    [][(/\ Arrives(2)
        /\ reqs[1].pc = "done" /\ reqs[1].useCache /\ reqs[1].wrote
        /\ reqs'[2].useCache
        /\ redisUp
        /\ redis[KeyOf(1)] # <<>>)
          => /\ reqs'[2].pc = "done"
             /\ reqs'[2].outcome = "ok"
             /\ reqs'[2].response = reqs[1].response
             /\ reqs'[2].response[1].hosts = reqs[1].hosts
             /\ UNCHANGED <<procs, files, redis, expiry, lastId>>]_vars

\* C11 witness: the second call returned the hosts and the probe records of
\* the first from the cache, without providers
C11_Witness ==
    /\ reqs[1].pc = "done" /\ reqs[1].wrote
    /\ reqs[2].pc = "done" /\ reqs[2].useCache /\ reqs[2].hit # <<>>
    /\ ~FannedOut(2)
    /\ reqs[2].response = reqs[1].response
    /\ reqs[2].response[1].hosts = <<hApi, hWww>>
    /\ reqs[2].response[1].httpx = <<hApi, hWww>>

\* C12: a key holds an entry only while less than CACHE_EXPIRATION seconds
\* have passed since the entry was written, so get returns none older; and a
\* call with use_cache=true that arrives when the entry of its target is gone
\* starts the providers of its kind again.
C12_EntryLivesForTtl ==
    [][/\ \A key \in CacheKeys :
             redis'[key] # <<>> => expiry'[key].age < CACHE_EXPIRATION
       /\ \A r \in ReqIds :
             (Arrives(r) /\ reqs'[r].useCache /\ redis[KeyOf(r)'] = <<>>)
                => /\ reqs'[r].hit = <<>>
                   /\ \A p \in Launched(reqs'[r].kind) :
                         procs'[r][p].state = "running"]_vars

\* C12 witness: the first call wrote its entry, and the second, reaching
\* Redis after the entry expired, ran the providers again to its end
C12_Witness ==
    /\ reqs[1].pc = "done" /\ reqs[1].wrote
    /\ reqs[2].pc = "done" /\ reqs[2].useCache /\ reqs[2].conn
    /\ reqs[2].hit = <<>>
    /\ FannedOut(2)
    /\ reqs[2].hosts # <<>>

\* the cache does not answer a service object: its connection failed, or the
\* server fails now
Unavailable(conn) == ~(conn /\ redisUp)

\* a result to hand to set
SomeResult(key) ==
    LET t == CHOOSE u \in KeyTargets(key) : TRUE
    IN MakeResult(t[1], t[2], <<hApi>>, <<>>)

\* C13: while the cache backend is unavailable, get returns nothing, set and
\* delete change nothing and return false, and isAvailable returns false; a
\* call with use_cache=true that arrives then starts its providers as on a
\* miss, and a call that reaches its end then returns the result of its own
\* run without error, nothing being stored.
C13_UnavailableCacheDegrades ==
    [][/\ \A conn \in BOOLEAN, key \in CacheKeys :
             Unavailable(conn) =>
                /\ RedisGet(conn, key) = <<>>
                /\ RedisSet(conn, key, SomeResult(key), CACHE_EXPIRATION)
                      = Stored(redis, expiry)
                /\ ~RedisSetReturns(conn)
                /\ RedisDelete(conn, key) = Stored(redis, expiry)
                /\ ~RedisDeleteReturns(conn, key)
                /\ ~isAvailable(conn)
       /\ \A r \in ReqIds :
             /\ (Arrives(r) /\ reqs'[r].useCache /\ ~redisUp)
                   => /\ reqs'[r].hit = <<>>
                      /\ \A p \in Launched(reqs'[r].kind) :
                            procs'[r][p].state = "running"
             /\ (/\ reqs[r].pc = "finish" /\ reqs'[r].pc = "done"
                 /\ reqs[r].useCache
                 /\ Unavailable(reqs[r].conn))
                   => /\ reqs'[r].outcome = "ok"
                      /\ reqs'[r].response =
                            <<Result(r, reqs[r].hosts, reqs[r].httpx)>>
                      /\ ~reqs'[r].wrote
                      /\ UNCHANGED <<redis, expiry>>]_vars

\* C13 witness: a call that connected, found no entry and ran its providers
\* returned its hosts although Redis had failed by the time of the write
C13_Witness ==
    \E r \in ReqIds :
        /\ reqs[r].pc = "done" /\ reqs[r].outcome = "ok"
        /\ reqs[r].useCache /\ reqs[r].conn /\ ~redisUp
        /\ FannedOut(r)
        /\ ~reqs[r].wrote
        /\ reqs[r].response # <<>>
        /\ reqs[r].response[1].hosts # <<>>
        /\ redis[KeyOf(r)] = <<>>

\* the step stores a value under the key
Written(key) ==
    /\ redis'[key] # <<>>
    /\ <<redis'[key], expiry'[key]>> # <<redis[key], expiry[key]>>
    /\ expiry'[key].age = 0

\* the call returns in this step
Returns(r) == reqs[r].pc # "done" /\ reqs'[r].pc = "done"

\* C14: a value is stored under a key only in the step in which a call for
\* that target returns without error, and it is the result the call returns;
\* a call that ends with an error leaves every entry as it was and has
\* written none.
C14_WrittenOnSuccessOnly ==
    [][/\ \A key \in CacheKeys :
             Written(key) =>
                \E r \in ReqIds :
                    /\ Returns(r) /\ KeyOf(r) = key
                    /\ reqs'[r].outcome = "ok"
                    /\ reqs[r].useCache
                    /\ redis'[key] = <<json_encode(reqs'[r].response[1])>>
       /\ \A r \in ReqIds :
             (Returns(r) /\ reqs'[r].outcome = "error")
                => /\ UNCHANGED <<redis, expiry>>
                   /\ ~reqs'[r].wrote]_vars

\* C14 witness: a call whose providers had been started ended with an error,
\* and the entry stored for its target before the call is still the entry
C14_Witness ==
    \E r \in ReqIds :
        /\ reqs[r].pc = "done" /\ reqs[r].outcome = "error"
        /\ FannedOut(r)
        /\ ~reqs[r].wrote
        /\ redisUp
        /\ redis[KeyOf(r)] =
              <<json_encode(Result(r, <<hApi, hWww>>, <<hApi, hWww>>))>>

\* C15: a call with use_cache=false is handed no cache entry: whatever is
\* stored for its target, it starts the providers of its kind; and when it
\* returns, the store is as it was and the call has written nothing.
C15_NoCacheWhenDisabled ==
    [][/\ ~use_cache(<<"false">>) /\ ~use_cache(<<"0">>)
       /\ \A r \in ReqIds :
             /\ (Arrives(r) /\ ~reqs'[r].useCache)
                   => /\ reqs'[r].hit = <<>>
                      /\ reqs'[r].response = <<>>
                      /\ \A p \in Launched(reqs'[r].kind) :
                            procs'[r][p].state = "running"
             /\ (Returns(r) /\ ~reqs'[r].useCache)
                   => /\ UNCHANGED <<redis, expiry>>
                      /\ ~reqs'[r].wrote]_vars

\* C15 witness: a call with use_cache=false returned the hosts of its own
\* providers while Redis answered and held another entry for the target,
\* which is still there
C15_Witness ==
    \E r \in ReqIds :
        /\ reqs[r].pc = "done" /\ reqs[r].outcome = "ok"
        /\ ~reqs[r].useCache /\ reqs[r].conn /\ redisUp
        /\ FannedOut(r)
        /\ reqs[r].response[1].hosts = <<hApi>>
        /\ redis[KeyOf(r)] = <<json_encode(Result(r, <<hApi, hWww>>, <<>>))>>

(***************************************************************************)
(* Claims about the fan-out and the merge                                  *)
(***************************************************************************)

\* the call is held at its providers: in exec(), or in the loop of waitForFiles
Waiting(r) == reqs[r].pc \in {"exec", "wait"}

\* the call can take its next step now, whatever its providers have done
CanGoOn(r) == ENABLED (ExecReturns(r) \/ waitForFiles(r))

\* C16: once the fan-out deadline of a call has passed, domain or
\* organization, the call is not held at its providers any longer: if it is
\* still waiting, it can leave the wait at once, in whatever state the
\* providers are.
C16_WaitEndsAtDeadline ==
    \A r \in ReqIds : (Waiting(r) /\ reqs[r].expired) => CanGoOn(r)

\* the hosts the providers that completed before the deadline wrote
OnTimeHosts(r) ==
    UNION {Range(ReadLines(procs[r][p].out)) : p \in Completed(r)}

\* C17: the merged DiscoverySet of a call holds nothing but what the
\* providers that had completed when the deadline passed wrote: a provider
\* that had not completed by then contributes no entry.
C17_LateProviderDiscarded ==
    \A r \in ReqIds :
        (reqs[r].pc \in {"httpx", "probe", "finish", "done"} /\ FannedOut(r))
            => Range(reqs[r].hosts) \subseteq OnTimeHosts(r)

\* the lines a file yields to the merge
LinesOf(file) == IF file.exists THEN Range(ReadLines(file.lines)) ELSE {}

Ascending(q) == \A i \in 1..Len(q), j \in 1..Len(q) : i < j => StrLess(q[i], q[j])

\* C18: the merge of a domain call yields the union of the lines of its two
\* files and nothing else, each once, in ascending byte order; it is the
\* same with the two files exchanged, so neither the provider a line came
\* from nor the order the providers finished in matters.
C18_MergeIsSortedUnion ==
    [][(reqs[1].pc = "combine" /\ reqs'[1].pc = "httpx")
          => LET subfinderFile == files[OutPath(1, "subfinder")]
                 crtshFile == files[OutPath(1, "crtsh")]
                 merged == reqs'[1].hosts
             IN /\ Range(merged) = LinesOf(subfinderFile) \cup LinesOf(crtshFile)
                /\ Ascending(merged)
                /\ merged = combineResults(crtshFile, subfinderFile)
                /\ files'[CombinedPath(1)].lines = merged]_vars

\* C18 witness: subfinder wrote its two hosts in descending order and crt.sh
\* answered the same two; the merge holds each once, ascending
C18_Witness ==
    /\ reqs[1].pc = "httpx"
    /\ files[OutPath(1, "subfinder")].lines = <<hWww, hApi>>
    /\ files[OutPath(1, "crtsh")].lines = <<hApi, hWww>>
    /\ reqs[1].hosts = <<hApi, hWww>>

\* the two provider answers of the scenario, for the target e
ScenarioFirst == {hWww, hWild, hApi}

ScenarioSecond == {hApiUp, hMail}

\* subfinder answered the set given first and crt.sh the other
ScenarioFiles(subfinderSet, crtshSet) ==
    /\ files[OutPath(1, "subfinder")].exists
    /\ Range(files[OutPath(1, "subfinder")].lines) = subfinderSet
    /\ files[OutPath(1, "crtsh")].exists
    /\ files[OutPath(1, "crtsh")].lines = CrtshPipeline(crtshSet)

\* C19: with one provider answering {w.e, *.e, a.e} and the other
\* {A.e, m@e} for the target e, whichever provider is which, the merged
\* DiscoverySet is exactly a.e, e, w.e.
C19_ScenarioMerge ==
    (/\ reqs[1].pc = "httpx"
     /\ \/ ScenarioFiles(ScenarioFirst, ScenarioSecond)
        \/ ScenarioFiles(ScenarioSecond, ScenarioFirst))
        => reqs[1].hosts = <<hApi, hBare, hWww>>

\* C20: runHttpx, given no hosts, returns the empty list at once: no temp
\* file is written and the httpx process is not started.
C20_NoHostsNoProbe ==
    [][\A r \in ReqIds :
          (/\ reqs[r].pc = "httpx" /\ reqs'[r].pc \in {"probe", "finish"}
           /\ reqs[r].hosts = <<>>)
             => /\ reqs'[r].pc = "finish"
                /\ reqs'[r].httpx = <<>>
                /\ ~reqs'[r].ranHttpx
                /\ UNCHANGED <<files, procs, lastId>>]_vars

\* C20 witness: a call whose providers wrote nothing returned an empty
\* result without the prober
C20_Witness ==
    \E r \in ReqIds :
        /\ reqs[r].pc = "done" /\ reqs[r].outcome = "ok"
        /\ FannedOut(r)
        /\ reqs[r].hosts = <<>>
        /\ reqs[r].response[1].httpx = <<>>
        /\ ~reqs[r].ranHttpx
(***************************************************************************)
(* Claims about the enrichment                                             *)
(***************************************************************************)
\* the line, whitespace aside, is the record of one of the probed hosts
WellFormed(line) == \E h \in {hApi, hWww} : Trim(line) = RecordLine(h)

RecordOf(line) == CHOOSE h \in {hApi, hWww} : Trim(line) = RecordLine(h)

\* the records of the well-formed lines, in the order of the lines
RECURSIVE WellFormedRecords(_)
WellFormedRecords(lines) ==
    IF lines = <<>> THEN <<>>
    ELSE (IF WellFormed(Head(lines)) THEN <<RecordOf(Head(lines))>> ELSE <<>>)
             \o WellFormedRecords(Tail(lines))

C23_ProbesWithinMaxThreads ==
    \A r \in ReqIds : ProbesInFlight(r) <= MAX_THREADS

(***************************************************************************)
(* Claims about the request                                                *)
(***************************************************************************)
\* C24: a request whose target is missing or empty is answered 400 before
\* any provider is started and before the cache is read or written.
C24_BadTargetRejected ==
    \A r \in ReqIds :
        (reqs[r].pc # "idle" /\ reqs[r].name = NoName)
            => /\ reqs[r].pc = "done" /\ reqs[r].outcome = "invalid"
               /\ ~FannedOut(r)
               /\ reqs[r].hit = <<>> /\ ~reqs[r].wrote

\* C25: a request that asks run_httpx=false and runs the providers returns
\* its host list without the prober having been started, and with no
\* enrichment records.
C25_NoEnrichmentWhenNotAsked ==
    \A r \in ReqIds :
        (/\ reqs[r].unread.run_httpx = <<"false">>
         /\ reqs[r].pc = "done" /\ reqs[r].outcome = "ok" /\ FannedOut(r))
            => /\ ~reqs[r].ranHttpx
               /\ reqs[r].response[1].httpx = <<>>

\* C26: a request that asks background_task=true and misses the cache is
\* answered at once with a handle whose status is processing: the caller is
\* never kept waiting while the providers, the merge or the prober run, and
\* the answer is never the finished result.
C26_BackgroundAnswersAtOnce ==
    \A r \in ReqIds :
        (/\ reqs[r].unread.background_task = <<"true">>
         /\ reqs[r].pc # "idle" /\ reqs[r].outcome # "invalid"
         /\ reqs[r].hit = <<>>)
            => /\ reqs[r].pc = "done"
               /\ reqs[r].response # <<>>
               /\ "status" \in DOMAIN reqs[r].response[1]
               /\ reqs[r].response[1].status = "processing"

\* C27: while the prober of a call with the cache enabled runs, the cache
\* already holds the call's merged host list as a result without records.
C27_BaseResultCachedFirst ==
    \A r \in ReqIds :
        (reqs[r].pc = "probe" /\ reqs[r].useCache /\ reqs[r].conn /\ redisUp)
            => redis[CacheKey(reqs[r].kind, reqs[r].name)] =
                   <<json_encode(Result(r, reqs[r].hosts, <<>>))>>

\* C28: the cache key of a domain request is "domain:" and its name, that of
\* an organization request "org:" and its name, and no two requests that
\* differ in kind or in name have the same key: a request answered from the
\* cache is given the result stored for its own kind and name, and an entry
\* changes only when a request of its own kind and name returns.
C28_KeysKeepRequestsApart ==
    [][/\ CacheKey("domain", "e") = "domain:e" /\ CacheKey("org", "e") = "org:e"
       /\ \A t \in Kinds \X AllNames, u \in Kinds \X AllNames :
              t # u => CacheKey(t[1], t[2]) # CacheKey(u[1], u[2])
       /\ \A r \in ReqIds :
              (Arrives(r) /\ reqs'[r].hit # <<>>)
                 => /\ reqs'[r].hit[1].kind = reqs'[r].kind
                    /\ reqs'[r].hit[1].name = reqs'[r].name
       /\ \A t \in Kinds \X AllNames :
              redis'[CacheKey(t[1], t[2])] # redis[CacheKey(t[1], t[2])]
                 => \E r \in ReqIds :
                       /\ Returns(r)
                       /\ reqs[r].kind = t[1] /\ reqs[r].name = t[2]]_vars

\* C28 witness: a domain request for e was answered from the cache while the
\* organization e had an entry of its own, and so had the empty name
C28_Witness ==
    \E r \in ReqIds :
        /\ reqs[r].pc = "done" /\ reqs[r].kind = "domain" /\ reqs[r].name = "e"
        /\ reqs[r].hit # <<>> /\ reqs[r].response[1].kind = "domain"
        /\ redis["org:e"] = FullEntry("org", "e")
        /\ redis["domain:"] = FullEntry("domain", NoName)

(***************************************************************************)
(* Claims about the wait and the client                                    *)
(***************************************************************************)
\* C29: the wait of a call ends before the deadline only when every provider
\* of the call has finished writing its file, and the merge never reads a
\* file its provider is still writing.
C29_WaitEndsOnCompletion ==
    [][\A r \in ReqIds :
          /\ (reqs[r].pc = "wait" /\ reqs'[r].pc = "combine" /\ ~reqs[r].expired)
                 => \A f \in Awaited(r) : files[f].exists /\ files[f].done
          /\ (reqs[r].pc = "combine" /\ reqs'[r].pc = "httpx")
                 => \A f \in Awaited(r) : files[f].exists => files[f].done]_vars

\* a GET /domains request that is answered neither from the stored result nor
\* with the handle of a running job: it runs the providers anew
StartsPipeline(J, R, q) ==
    /\ q.endpoint = "domains" /\ q.target \in Targets
    /\ ~(q.uc /\ R[q.target].has)
    /\ J[q.target].status \notin {"pending", "processing"}

\* C30: when a poll tells the page that the background job is completed,
\* what the page then asks for is the stored result: none of its requests
\* makes the service run the providers anew, whatever the Use Cache switch.
C30_CompletedJobOnlyRead ==
    [][\A m \in Delivered :
          (m.type = "poll" /\ m.body.ok /\ m.body.status = "completed")
             => \A i \in 1..Len(PollFetches(m)) :
                    ~StartsPipeline(jobs, res, PollFetches(m)[i].q)]_vars

\* C31: every status poll and every fetch of the result that the page sends
\* while or after polling a background job is for the target the job was
\* started for, whatever has been typed into the domain field since.
C31_PollsSubmittedTarget ==
    [][\A m \in Sent :
          m.type \in {"poll", "results"}
             => m.dom \in Targets /\ jobs[m.dom].status # "none"]_vars

\* C32: a status or result response that arrives while the answer to a newly
\* submitted search is still awaited belongs to an earlier search; it changes
\* none of the subdomains, enrichment results, progress and enrichment
\* status shown.
C32_StaleResponseNotApplied ==
    [][\A m \in Delivered :
          (/\ m.type \in {"poll", "httpxPoll", "results", "httpxResults"}
           /\ \E s \in net : s.type = "submit")
             => /\ ui'.subdomains = ui.subdomains
                /\ ui'.httpxResults = ui.httpxResults
                /\ ui'.progress = ui.progress
                /\ ui'.httpxStatus = ui.httpxStatus]_vars

C34_EnrichmentPollEnds ==
    (/\ ui.httpxStatus = "running"
     /\ \E t \in Targets :
           t = ui.domain /\ res[t].hstatus \in {"completed", "error"})
       ~> (ui.httpxStatus # "running" /\ ~ui.httpxLoading)

\* C35: a step in which the page asks for an enrichment-only scan is taken
\* only while the page shows the enrichment as not_started or error and no
\* scan is loading, and no enrichment of the target is running at the
\* tracker at that moment.
C35_NoSecondScan ==
    [][(\E m \in Sent : m.type = "scan")
          => /\ ui.httpxStatus \in {"not_started", "error"}
             /\ ~ui.httpxLoading
             /\ \A t \in Targets :
                   t = ui.domain => res[t].hstatus # "running"]_vars

\* C36: once a discovery call that started its providers has returned or
\* thrown, none of the temp files it was given paths for exists, whatever a
\* provider still running does afterwards.
C36_NoTempFileLeft ==
    \A r \in ReqIds :
        (/\ reqs[r].pc = "done"
         /\ \E p \in Providers : procs[r][p].state # "none")
           => \A f \in Owned(r) : ~files[f].exists

\* C37: two discovery requests that have started their providers and have
\* not returned yet have no temp file path in common.
C37_TempPathsApart ==
    \A r \in ReqIds, q \in ReqIds :
        (r # q /\ Active(r) /\ Active(q)) => Owned(r) \cap Owned(q) = {}

====
